---- MODULE Spec2Model ----
(***************************************************************************)
(* Duty-cycle controller of the remote battery monitor (src/main.py).      *)
(* One behaviour is a sequence of wake cycles of one device.  Each cycle    *)
(* runs main() from the import of the module to machine.deepsleep, to       *)
(* machine.reset (self-update) or to an uncaught exception.  The flash     *)
(* files are the only state that survives from one cycle to the next, and  *)
(* of a file only what was synced is sure to survive the power-down.       *)
(*                                                                         *)
(* Units: time in ms (time.ticks_ms), current of the INA219 in mA, energy  *)
(* in mA*ms (one mAh is MsPerHour of these units), voltages read from the   *)
(* INA260 in mV and current in mA, rounded by the program to 1/100.        *)
(***************************************************************************)
EXTENDS Integers, Sequences, FiniteSets, TLC

\* ------------------------------------------------------------------------
\* Bounds of the model
\* ------------------------------------------------------------------------
MaxCycles == 2          \* wake cycles explored in one behaviour
MaxFail == 1            \* largest fail count found on flash at power-up

\* ------------------------------------------------------------------------
\* Program constants
\* ------------------------------------------------------------------------
DEFAULT_SLEEP_MS == 300000
max_attempts == 25
MsPerHour == 3600000
KNOWN_NETWORKS == <<"Levy-Guest", "Seattle Boat", "Joe's iPhone">>

\* Python's None where a string is expected, and where a dict is expected
None == "None"
NoConfig == <<"None">>

\* ------------------------------------------------------------------------
\* Texts are sequences of one-character strings.
\* ------------------------------------------------------------------------
DigitSeq == <<"0", "1", "2", "3", "4", "5", "6", "7", "8", "9">>
Digits == {DigitSeq[i] : i \in 1..10}
DigitVal(c) == (CHOOSE i \in 1..10 : DigitSeq[i] = c) - 1

\* str(n) of a number n >= 0: its decimal digits
RECURSIVE Str(_)
Str(n) == IF n < 10 THEN <<DigitSeq[n + 1]>>
          ELSE Append(Str(n \div 10), DigitSeq[(n % 10) + 1])

\* str.strip(), and the white space that int() and float() pass over
Whitespace == {" ", "\n"}

RECURSIVE LStrip(_)
LStrip(t) == IF t # <<>> /\ Head(t) \in Whitespace THEN LStrip(Tail(t)) ELSE t

RECURSIVE RStrip(_)
RStrip(t) == IF t # <<>> /\ t[Len(t)] \in Whitespace
             THEN RStrip(SubSeq(t, 1, Len(t) - 1)) ELSE t

Strip(t) == RStrip(LStrip(t))

\* int(text): defined on digit strings with white space around them, raises
\* ValueError otherwise (signs and other bases are not among the inputs)
IntOk(p) == Strip(p) # <<>> /\ \A i \in 1..Len(Strip(p)) : Strip(p)[i] \in Digits

RECURSIVE DigitsValue(_)
DigitsValue(p) ==
    IF Len(p) = 0 THEN 0
    ELSE 10 * DigitsValue(SubSeq(p, 1, Len(p) - 1)) + DigitVal(p[Len(p)])

IntOf(p) == DigitsValue(Strip(p))

\* ------------------------------------------------------------------------
\* Flash files.  A file is Missing or holds a text: the text of an int (the
\* fail count), of a float (the energy, counted in mA*ms) or any other.
\* Empty is the file that open(.., "w") has truncated and that was never
\* written.
\* ------------------------------------------------------------------------
Missing == <<>>
Text(s) == <<"text", s>>
IntText(n) == Text(Str(n))
FloatText(x) == Text(Str(x))
Empty == Text(<<>>)
Garbage == Text(<<"x">>)

IsText(f) == Len(f) = 2 /\ f[1] = "text"
IsIntText(f) == IsText(f) /\ IntOk(f[2])
IsFloatText(f) == IsText(f) /\ IntOk(Strip(f[2]))

\* Outcome of  with open(name, "w") as f: f.write(text) :
\*   "ok"           the text is on flash
\*   "open_failed"  open() raised, flash untouched
\*   "write_failed" open() truncated the file, then write/flush raised
WriteOutcomes == {"ok", "open_failed", "write_failed"}

WriteFile(old, new, outcome) ==
    CASE outcome = "ok" -> new
      [] outcome = "open_failed" -> old
      [] OTHER -> Empty

\* ------------------------------------------------------------------------
\* Persisted fields
\* ------------------------------------------------------------------------
\* Variant: a record that cannot be read counts as one failure
get_fail_count_one(file) == IF IsIntText(file) THEN IntOf(file[2]) ELSE 1

get_fail_count(file) == IF IsIntText(file) THEN IntOf(file[2]) ELSE 0

set_fail_count(file, value, outcome) == WriteFile(file, IntText(value), outcome)

get_cumulative_mah(file) ==
    IF IsFloatText(file) THEN IntOf(Strip(file[2])) ELSE 0

set_cumulative_mah(file, value, outcome) ==
    WriteFile(file, FloatText(value), outcome)

DefaultVersion == <<"0", ".", "0">>

\* Variant: the version file is never read
get_local_version_unread(file) == DefaultVersion

get_local_version(file) ==
    IF IsText(file) THEN Strip(file[2]) ELSE DefaultVersion

\* Variant: the new version is never put on flash
set_local_version_skipped(file, version, outcome) == file

set_local_version(file, version, outcome) ==
    WriteFile(file, Text(version), outcome)

\* ------------------------------------------------------------------------
\* Versions
\* ------------------------------------------------------------------------
\* str.split("."): the pieces between the dots, cur being the piece that
\* is being read when the scan is at position i.
RECURSIVE SplitFrom(_, _, _)
SplitFrom(s, i, cur) ==
    IF i > Len(s) THEN <<cur>>
    ELSE IF s[i] = "." THEN <<cur>> \o SplitFrom(s, i + 1, <<>>)
    ELSE SplitFrom(s, i + 1, Append(cur, s[i]))

Split(s) == SplitFrom(s, 1, <<>>)

version_tuple(v) ==
    LET parts == Split(v)
    IN  IF ~IntOk(parts[1]) THEN <<0, 0>>
        ELSE IF Len(parts) > 1
             THEN IF IntOk(parts[2]) THEN <<IntOf(parts[1]), IntOf(parts[2])>>
                  ELSE <<0, 0>>
             ELSE <<IntOf(parts[1]), 0>>

\* Variant: only the major numbers are compared
TupleGreaterMajorOnly(a, b) == a[1] > b[1]

\* Python's > on tuples of two ints
TupleGreater(a, b) == a[1] > b[1] \/ (a[1] = b[1] /\ a[2] > b[2])

\* line 268: the test that opens the update
update_available(sheet_version, local_version) ==
    TupleGreater(version_tuple(sheet_version), version_tuple(local_version))

\* ------------------------------------------------------------------------
\* Rounding
\* ------------------------------------------------------------------------
\* round(x / unit) for x >= 0, ties to the even neighbour as Python's round
RoundTo(x, unit) ==
    LET q == x \div unit
        r == x % unit
    IN  IF 2 * r < unit THEN q
        ELSE IF 2 * r > unit THEN q + 1
        ELSE IF q % 2 = 0 THEN q ELSE q + 1

\* round(mAh, 3) on an energy in mA*ms: the nearest multiple of 1/1000 mAh
Round3(e) == RoundTo(e, MsPerHour \div 1000) * (MsPerHour \div 1000)

\* round(volts, 2) on a reading in mV, the result in 1/100 V
Round2(mv) == RoundTo(mv, 10)

\* lines 461-465: battery voltage shown in the record, in 1/100 V
battery_voltage(mv) == IF Round2(mv) < 1000 THEN 0 ELSE Round2(mv)

\* ------------------------------------------------------------------------
\* Wi-Fi helpers
\* ------------------------------------------------------------------------
\* lines 298-304: the polling loop.  ready is the number of the poll at
\* which wlan.isconnected() turns true for the network that was asked for.
RECURSIVE PollLoop(_, _)
PollLoop(ready, attempts) ==
    IF ~(attempts >= ready) /\ attempts < max_attempts
    THEN PollLoop(ready, attempts + 1)
    ELSE attempts

\* Variant: every known network is tried, seen or not
in_scan_always(ssid, available_networks) == TRUE

\* line 294
in_scan(ssid, available_networks) == ssid \in available_networks

\* line 424
wifi_failed(w, link) == w = None \/ link = None

\* Variant: a failed connect counts twice
next_fail_count_twice(n) == n + 2

\* line 426
next_fail_count(n) == n + 1

\* Variant: any answer of the server counts as success
upload_ok_any(r) == r # ""

\* line 515
upload_ok(r) == r = "OK"

\* ------------------------------------------------------------------------
\* Program image and download
\* ------------------------------------------------------------------------
\* A program text is <<lead, body>>: lead is what the stripped text starts
\* with, body names the rest.
INSTALLED_IMAGE == <<"from", "installed">>
TRUNCATED_IMAGE == <<"", "">>
PythonPrefixes == {"def", "import", "#", "from"}

\* line 235
looks_like_python(new_code) == new_code[1] \in PythonPrefixes

\* What urequests.get(UPDATE_URL) can give: an exception, or a text
HttpError == <<"error", "">>
DownloadTexts == {<<"import", "published">>, <<"<html>", "page">>,
                  TRUNCATED_IMAGE}
Downloads == {HttpError} \cup DownloadTexts

\* lines 224-247: <<return value, main.py afterwards>>
download_new_version(file, response, outcome) ==
    IF response = HttpError THEN <<FALSE, file>>
    ELSE IF ~looks_like_python(response) THEN <<FALSE, file>>
    ELSE CASE outcome = "ok" -> <<TRUE, response>>
           [] outcome = "open_failed" -> <<FALSE, file>>
           [] OTHER -> <<FALSE, TRUNCATED_IMAGE>>

\* ------------------------------------------------------------------------
\* Remote configuration
\* ------------------------------------------------------------------------
Absent == <<"absent">>
NotInt == <<"bad">>
IntVal(n) == <<"int", n>>
SleepSeconds == {600}
SleepValues == {Absent, NotInt} \cup {IntVal(n) : n \in SleepSeconds}

PublishedVersions ==
    { <<"1", ".", "3">>, <<"1", ".", "4">>, <<"2">>, <<"x">>,
      <<"1", ".">>, <<".", "4">>, <<"1", ".", "4", ".", "x">>,
      <<"1", ".", "1", "0">>, <<"0", "2", ".", "0">> }
VersionValues == {Absent} \cup {Text(v) : v \in PublishedVersions}

EmptyDict == <<"{}">>
Dict(sl, ver) == <<"dict", sl, ver>>
Configs == {NoConfig, EmptyDict} \cup
           {Dict(sl, ver) : sl \in SleepValues, ver \in VersionValues}

\* line 437: truth value of the fetched object
truthy(cfg) == cfg # NoConfig /\ cfg # EmptyDict

\* Variant: the seconds of the sheet are taken as milliseconds
new_sleep_ms_unscaled(cfg, sleep_ms_now) ==
    CASE cfg[2] = Absent -> sleep_ms_now
      [] cfg[2] = NotInt -> sleep_ms_now
      [] OTHER -> cfg[2][2]

\* lines 443-450
new_sleep_ms(cfg, sleep_ms_now) ==
    CASE cfg[2] = Absent -> (sleep_ms_now \div 1000) * 1000
      [] cfg[2] = NotInt -> sleep_ms_now
      [] OTHER -> cfg[2][2] * 1000

\* line 453
sheet_version_of(cfg) == IF cfg[3] = Absent THEN DefaultVersion ELSE cfg[3][2]

\* ------------------------------------------------------------------------
\* Inputs of a cycle
\* ------------------------------------------------------------------------
Hour == MsPerHour
Dts == {Hour}                    \* ms between two samples
\* What the INA219 gives for its current register: an I2C error, or 16 bits
\* in two's complement, 0.1 mA per bit
ReadFault == <<"OSError">>
Register(bits) == <<"reg", bits>>
RawCurrents == {ReadFault, Register(65536 - 1000)}
\* INA260 readings <<house mV, house mA, engine mV, engine mA>>
SensorReadings == {<<12604, 1254, 9994, 0>>}
Responses == {"OK", "Error: -2", "<html>"}
ReadyTimes == {0, max_attempts}  \* polls until a joinable network is ready
Never == max_attempts + 1
KnownSet == {KNOWN_NETWORKS[i] : i \in 1..Len(KNOWN_NETWORKS)}

\* ------------------------------------------------------------------------
\* State
\* ------------------------------------------------------------------------
VARIABLES
    fail_file, mah_file, version_file, main_py,   \* flash, as the program reads it
    synced,              \* the four files as last synced to the flash chip
    pc,                  \* where main() is
    cycle,               \* number of the wake cycle
    SLEEP_MS,            \* the module global
    cumulative_mah,      \* main's local
    ina260_house, ina260_engine, ina219_pico,  \* TRUE: the driver object
    sample_power,        \* TRUE once main holds the closure
    closure_mah,         \* cycle_mah of measure_power_during_cycle
    last_sample_time,
    cycle_mah,           \* cycle_mah of main: the second returned value
    now,                 \* time.ticks_ms()
    wlan, attempts,      \* what connect_wifi returned
    radio_active,        \* wlan.active()
    link,                \* the ssid the radio is connected to, or None
    available_networks, net_idx,   \* connect_wifi's scan and loop position
    joined,              \* ssids passed to wlan.connect by this connect_wifi
    fail_count, local_version, vars_from_sheet, data, result,
    readings,            \* <<house V, house A, engine V, engine A>> in 1/100
    slept_ms,            \* argument of the last machine.deepsleep
    env_joinable,        \* known networks in range that accept the join
    h                    \* history of this cycle, for the properties

files == <<fail_file, mah_file, version_file, main_py>>
flash == <<files, synced>>
sensors == <<ina260_house, ina260_engine, ina219_pico>>
meter == <<sample_power, closure_mah, last_sample_time, cycle_mah>>
radio == <<wlan, attempts, radio_active, link, available_networks, net_idx,
           joined>>
locals == <<fail_count, local_version, vars_from_sheet, data, result,
            readings>>
vars == <<flash, pc, cycle, SLEEP_MS, cumulative_mah, sensors, meter, now,
          radio, locals, slept_ms, env_joinable, h>>

\* History of a cycle as it starts.  Three fields are carried from cycle to
\* cycle: last_update, the version published at the latest update restart
\* (<<>> when there was none, or its version write failed); clean, that the
\* store was empty at first and every write since has worked; since_ok, the
\* cycles without connection since the latest upload answered "OK", counted
\* while clean holds.
StartHistory(last_update, clean, since_ok) ==
    [ fail_at_start |-> fail_file, mah_at_start |-> mah_file,
      version_at_start |-> version_file, main_at_start |-> main_py,
      sleep_at_start |-> DEFAULT_SLEEP_MS, slept_before |-> slept_ms,
      energy |-> 0, samples |-> 0,
      read_fault |-> FALSE,    \* the read of the latest sample raised
      connect_result |-> "pending",
      fetched |-> FALSE, fetch_none |-> FALSE, sleep_cfg |-> <<>>,
      update_checked |-> FALSE,
      published |-> <<>>,        \* the version of a download that was saved
      same_as_update |-> FALSE,  \* the config publishes last_update again
      download |-> "none", new_code |-> <<>>,
      sensors_read |-> FALSE, uploaded |-> FALSE, result |-> "",
      w_fail |-> "none", w_mah |-> "none", w_ver |-> "none",
      w_img |-> "none",
      last_update |-> last_update, clean |-> clean,
      since_ok |-> IF clean THEN since_ok ELSE 0 ]

WritesWorked(hist) ==
    /\ hist.w_fail \in {"none", "ok"} /\ hist.w_mah \in {"none", "ok"}
    /\ hist.w_ver \in {"none", "ok"} /\ hist.w_img \in {"none", "ok"}

\* Cycles without connection since the latest "OK", after the cycle of hist
SinceOkAfter(hist) ==
    IF hist.result = "OK" THEN 0
    ELSE IF hist.connect_result = "none" THEN hist.since_ok + 1
    ELSE hist.since_ok

\* History of the cycle that follows the cycle of h
NewHistory ==
    StartHistory(IF h.download = "saved"
                 THEN (IF h.w_ver = "ok" THEN h.published ELSE <<>>)
                 ELSE h.last_update,
                 h.clean /\ WritesWorked(h),
                 SinceOkAfter(h))

\* The flash at the first power-up: a device never run, or one in service
\* with a fail count that may be unreadable
InitFailFiles == {Garbage} \cup {IntText(n) : n \in 0..MaxFail}
InServiceVersion == Text(<<"1", ".", "3", "\n">>)
InitFlash ==
    {<<Missing, Missing, Missing>>} \cup
    {<<f, FloatText(5000), InServiceVersion>> : f \in InitFailFiles}

Init ==
    /\ \E f \in InitFlash :
          fail_file = f[1] /\ mah_file = f[2] /\ version_file = f[3]
    /\ main_py = INSTALLED_IMAGE
    /\ synced = files
    /\ pc = "boot"
    /\ cycle = 1
    /\ SLEEP_MS = DEFAULT_SLEEP_MS
    /\ cumulative_mah = 0
    /\ ina260_house = FALSE /\ ina260_engine = FALSE /\ ina219_pico = FALSE
    /\ sample_power = FALSE /\ closure_mah = 0 /\ last_sample_time = 0
    /\ cycle_mah = 0
    /\ now = 0
    /\ wlan = None /\ attempts = 0 /\ radio_active = FALSE /\ link = None
    /\ available_networks = {} /\ net_idx = 1 /\ joined = <<>>
    /\ fail_count = 0 /\ local_version = <<>> /\ vars_from_sheet = NoConfig
    /\ data = <<>> /\ result = "" /\ readings = <<0, 0, 0, 0>>
    /\ slept_ms = 0
    /\ env_joinable = {}
    /\ h = StartHistory(<<>>, files = <<Missing, Missing, Missing,
                                        INSTALLED_IMAGE>>, 0)

\* lines 145-146 and 218-219: f.flush() and os.sync() are reached when the
\* write before them raised nothing; os.sync() writes every file out
os_sync(outcome, written, before) ==
    IF outcome = "ok" THEN written ELSE before

\* ------------------------------------------------------------------------
\* Power-up: the module is imported and main() starts (lines 1-41, 368-379)
\* ------------------------------------------------------------------------
Boot ==
    /\ pc = "boot"
    /\ main_py # TRUNCATED_IMAGE
    /\ SLEEP_MS' = DEFAULT_SLEEP_MS
    /\ cumulative_mah' = get_cumulative_mah(mah_file)
    /\ ina260_house' = FALSE /\ ina260_engine' = FALSE /\ ina219_pico' = FALSE
    /\ sample_power' = FALSE /\ closure_mah' = 0 /\ last_sample_time' = 0
    /\ cycle_mah' = 0
    /\ now' = 0
    /\ wlan' = None /\ attempts' = 0 /\ available_networks' = {}
    /\ net_idx' = 1 /\ joined' = <<>>
    /\ fail_count' = 0 /\ local_version' = <<>> /\ vars_from_sheet' = NoConfig
    /\ data' = <<>> /\ result' = "" /\ readings' = <<0, 0, 0, 0>>
    /\ env_joinable' \in SUBSET KnownSet
    /\ h' = NewHistory
    /\ pc' = "init_sensors"
    /\ UNCHANGED <<flash, cycle, radio_active, link, slept_ms>>

\* An empty main.py runs nothing: the device stays awake at the prompt
BootFails ==
    /\ pc = "boot"
    /\ main_py = TRUNCATED_IMAGE
    /\ pc' = "bricked"
    /\ UNCHANGED <<flash, cycle, SLEEP_MS, cumulative_mah, sensors, meter,
                   now, radio, locals, slept_ms, env_joinable, h>>

\* lines 381-407: either all three drivers, or the handler sets all to None
InitSensors ==
    /\ pc = "init_sensors"
    /\ \E ok \in BOOLEAN :
          ina260_house' = ok /\ ina260_engine' = ok /\ ina219_pico' = ok
    /\ pc' = "measure"
    /\ UNCHANGED <<flash, cycle, SLEEP_MS, cumulative_mah, meter, now, radio,
                   locals, slept_ms, env_joinable, h>>

\* lines 410-411 and 151-184.  Without the INA219 the function returns the
\* float 0.0, and unpacking it into two names raises TypeError in main.
StartMeasure ==
    /\ pc = "measure"
    /\ IF ina219_pico
       THEN /\ sample_power' = TRUE
            /\ closure_mah' = 0
            /\ last_sample_time' = now
            /\ cycle_mah' = 0
            /\ pc' = "sample1"
       ELSE /\ pc' = "crashed"
            /\ UNCHANGED meter
    /\ UNCHANGED <<flash, cycle, SLEEP_MS, cumulative_mah, sensors, now,
                   radio, locals, slept_ms, env_joinable, h>>

\* The step of main that follows each call of sample_power()
AfterSample(p) ==
    CASE p = "sample1" -> "wifi"
      [] p = "sample2" -> "post_wifi"
      [] p = "sample3" -> "config"
      [] p = "sample4" -> "sample5"
      [] OTHER -> "upload"

\* Variant: the sign of the register is kept
read_current_signed(raw) ==
    IF raw = ReadFault THEN 0
    ELSE (IF raw[2] > 32767 THEN raw[2] - 65536 ELSE raw[2]) \div 10

\* lines 107-117: INA219.read_current, in mA
read_current(raw) ==
    IF raw = ReadFault THEN 0
    ELSE LET current_raw == IF raw[2] > 32767 THEN raw[2] - 65536
                            ELSE raw[2]
         IN  (IF current_raw < 0 THEN -current_raw ELSE current_raw) \div 10

\* line 173, in mA*ms
mah_this_sample(current_ma, time_diff_ms) == current_ma * time_diff_ms

\* lines 162-182: one call of the closure, dt ms after the previous one,
\* the INA219 reading current_ma
SamplePower ==
    /\ pc \in {"sample1", "sample2", "sample3", "sample4", "sample5"}
    /\ \E dt \in Dts, raw \in RawCurrents :
          LET current_time == now + dt
              current_ma == read_current(raw)
              time_diff_ms == current_time - last_sample_time
          IN  /\ now' = current_time
              /\ closure_mah' = closure_mah
                                  + mah_this_sample(current_ma, time_diff_ms)
              /\ last_sample_time' = current_time
              /\ h' = [h EXCEPT !.energy = @ + current_ma * dt,
                                !.samples = @ + 1,
                                !.read_fault = (raw = ReadFault)]
    /\ pc' = AfterSample(pc)
    /\ UNCHANGED <<flash, cycle, SLEEP_MS, cumulative_mah, sensors,
                   sample_power, cycle_mah, radio, locals, slept_ms,
                   env_joinable>>

\* ------------------------------------------------------------------------
\* connect_wifi (lines 279-317)
\* ------------------------------------------------------------------------
\* lines 281-291: radio on; return at once when already connected, else
\* scan.  The scan shows the joinable networks and any of the others.
WifiStart ==
    /\ pc = "wifi"
    /\ radio_active' = TRUE
    /\ IF link # None
       THEN /\ wlan' = "WLAN"
            /\ attempts' = 0
            /\ pc' = "wifi_return"
            /\ h' = [h EXCEPT !.connect_result = "already",
                              !.read_fault = FALSE]
            /\ UNCHANGED <<available_networks, net_idx>>
       ELSE /\ \E others \in SUBSET (KnownSet \ env_joinable) :
                  available_networks' = env_joinable \cup others
            /\ net_idx' = 1
            /\ pc' = "wifi_for"
            /\ h' = [h EXCEPT !.read_fault = FALSE]
            /\ UNCHANGED <<wlan, attempts>>
    /\ UNCHANGED <<flash, cycle, SLEEP_MS, cumulative_mah, sensors, meter,
                   now, link, joined, locals, slept_ms, env_joinable>>

\* lines 293-312: one iteration of the for loop over KNOWN_NETWORKS
TryNet ==
    /\ pc = "wifi_for"
    /\ net_idx <= Len(KNOWN_NETWORKS)
    /\ LET ssid == KNOWN_NETWORKS[net_idx]
       IN  IF in_scan(ssid, available_networks)
           THEN \E ready \in (IF ssid \in env_joinable THEN ReadyTimes
                              ELSE {Never}) :
                   LET polled == PollLoop(ready, 0)
                   IN  /\ attempts' = polled
                       /\ joined' = Append(joined, ssid)
                       /\ IF polled >= ready
                          THEN /\ link' = ssid
                               /\ wlan' = "WLAN"
                               /\ pc' = "wifi_return"
                               /\ h' = [h EXCEPT
                                          !.connect_result = "connected"]
                               /\ UNCHANGED net_idx
                          ELSE /\ net_idx' = net_idx + 1
                               /\ UNCHANGED <<link, wlan, pc, h>>
           ELSE /\ net_idx' = net_idx + 1
                /\ UNCHANGED <<link, wlan, pc, attempts, joined, h>>
    /\ UNCHANGED <<flash, cycle, SLEEP_MS, cumulative_mah, sensors, meter,
                   now, radio_active, available_networks, locals, slept_ms,
                   env_joinable>>

\* Variant: the radio is left on when no network was joined
WifiExhaustedRadioOn ==
    /\ pc = "wifi_for"
    /\ net_idx > Len(KNOWN_NETWORKS)
    /\ wlan' = None
    /\ attempts' = 0
    /\ pc' = "wifi_return"
    /\ h' = [h EXCEPT !.connect_result = "none"]
    /\ UNCHANGED <<flash, cycle, SLEEP_MS, cumulative_mah, sensors, meter,
                   now, radio_active, link, available_networks, net_idx,
                   joined, locals, slept_ms, env_joinable>>

\* lines 314-317: every known network was passed
WifiExhausted ==
    /\ pc = "wifi_for"
    /\ net_idx > Len(KNOWN_NETWORKS)
    /\ radio_active' = FALSE
    /\ wlan' = None
    /\ attempts' = 0
    /\ pc' = "wifi_return"
    /\ h' = [h EXCEPT !.connect_result = "none"]
    /\ UNCHANGED <<flash, cycle, SLEEP_MS, cumulative_mah, sensors, meter,
                   now, link, available_networks, net_idx, joined, locals,
                   slept_ms, env_joinable>>

\* line 417: connect_wifi has returned; its frame is gone, and of the radio
\* environment only what the connect has shown matters from here on
WifiReturn ==
    /\ pc = "wifi_return"
    /\ available_networks' = {}
    /\ net_idx' = 1
    /\ joined' = <<>>
    /\ env_joinable' = IF link = None THEN {} ELSE {link}
    /\ pc' = "sample2"
    /\ UNCHANGED <<flash, cycle, SLEEP_MS, cumulative_mah, sensors, meter,
                   now, wlan, attempts, radio_active, link, locals,
                   slept_ms, h>>

\* ------------------------------------------------------------------------
\* main after the connect (lines 420-431)
\* ------------------------------------------------------------------------
PostWifi ==
    /\ pc = "post_wifi"
    /\ local_version' = get_local_version(version_file)
    /\ LET loaded == get_fail_count(fail_file)
       IN  IF wifi_failed(wlan, link)
           THEN \E outcome \in WriteOutcomes :
                   /\ fail_count' = next_fail_count(loaded)
                   /\ fail_file' = set_fail_count(fail_file,
                                       next_fail_count(loaded), outcome)
                   /\ h' = [h EXCEPT !.w_fail = outcome,
                                     !.read_fault = FALSE]
                   /\ pc' = "sleep"
           ELSE /\ fail_count' = loaded
                /\ pc' = "fetch"
                /\ h' = [h EXCEPT !.read_fault = FALSE]
                /\ UNCHANGED fail_file
    /\ UNCHANGED <<mah_file, version_file, main_py, synced, cycle, SLEEP_MS,
                   cumulative_mah, sensors, meter, now, radio,
                   vars_from_sheet, data, result, readings, slept_ms,
                   env_joinable>>

\* lines 434 and 187-200: the object of the first try that works, or None
FetchVars ==
    /\ pc = "fetch"
    /\ vars_from_sheet' \in Configs
    /\ h' = [h EXCEPT !.fetched = TRUE,
                      !.fetch_none = (vars_from_sheet' = NoConfig)]
    /\ pc' = "sample3"
    /\ UNCHANGED <<flash, cycle, SLEEP_MS, cumulative_mah, sensors, meter,
                   now, radio, fail_count, local_version, data, result,
                   readings, slept_ms, env_joinable>>

\* What download_new_version reported
DownloadEnd(saved) == IF saved THEN "saved" ELSE "failed"

\* lines 437-457 with check_for_update (262-276).  The fetched object is not
\* read after this step and is dropped from the state.
ApplyConfig ==
    /\ pc = "config"
    /\ vars_from_sheet' = NoConfig
    /\ IF truthy(vars_from_sheet)
       THEN LET sheet_version == sheet_version_of(vars_from_sheet)
                installed == get_local_version(version_file)
                hc == [h EXCEPT !.sleep_cfg = vars_from_sheet[2],
                                !.update_checked = TRUE,
                                !.same_as_update =
                                     (sheet_version = h.last_update),
                                !.read_fault = FALSE]
            IN  /\ SLEEP_MS' = new_sleep_ms(vars_from_sheet, SLEEP_MS)
                /\ IF update_available(sheet_version, installed)
                   THEN \E response \in Downloads :
                        \E wi \in WriteOutcomes, wv \in WriteOutcomes :
                          LET dl == download_new_version(main_py, response, wi)
                              tried_save == response # HttpError
                                            /\ looks_like_python(response)
                          IN  /\ main_py' = dl[2]
                              /\ IF dl[1]
                                 THEN /\ version_file' = set_local_version(
                                             version_file, sheet_version, wv)
                                      /\ synced' = os_sync(wv,
                                             <<fail_file, mah_file,
                                               version_file', main_py'>>,
                                             synced)
                                      /\ pc' = "restarting"
                                 ELSE /\ UNCHANGED <<version_file, synced>>
                                      /\ pc' = "read_sensors"
                              /\ h' = [hc EXCEPT
                                     !.published = IF dl[1] THEN sheet_version
                                                   ELSE <<>>,
                                     !.download = DownloadEnd(dl[1]),
                                     !.new_code = IF dl[1] THEN response
                                                  ELSE <<>>,
                                     !.w_img = IF tried_save THEN wi
                                               ELSE "none",
                                     !.w_ver = IF dl[1] THEN wv ELSE "none"]
                   ELSE /\ pc' = "read_sensors"
                        /\ h' = hc
                        /\ UNCHANGED <<main_py, version_file, synced>>
       ELSE /\ pc' = "read_sensors"
            /\ h' = [h EXCEPT !.read_fault = FALSE]
            /\ UNCHANGED <<SLEEP_MS, main_py, version_file, synced>>
    /\ UNCHANGED <<fail_file, mah_file, cycle, cumulative_mah, sensors,
                   meter, now, radio, fail_count, local_version, data,
                   result, readings, slept_ms, env_joinable>>

\* ------------------------------------------------------------------------
\* Sensor read-out and upload (lines 459-521)
\* ------------------------------------------------------------------------
ReadSensors ==
    /\ pc = "read_sensors"
    /\ \E r \in SensorReadings :
          readings' = << IF ina260_house THEN battery_voltage(r[1]) ELSE 0,
                         IF ina260_house THEN Round2(r[2]) ELSE 0,
                         IF ina260_engine THEN battery_voltage(r[3]) ELSE 0,
                         IF ina260_engine THEN Round2(r[4]) ELSE 0 >>
    /\ h' = [h EXCEPT !.sensors_read = TRUE]
    /\ pc' = "sample4"
    /\ UNCHANGED <<flash, cycle, SLEEP_MS, cumulative_mah, sensors, meter,
                   now, radio, fail_count, local_version, vars_from_sheet,
                   data, result, slept_ms, env_joinable>>

\* lines 489-513: the record is assembled and sent.  Temp and IP_address
\* of the record are left out.
Upload ==
    /\ pc = "upload"
    /\ LET total == cumulative_mah + cycle_mah
       IN  /\ cumulative_mah' = total
           /\ data' = << [ Rounds_to_Connect |-> fail_count,
                           Wifi_Attempts_This_Round |-> attempts,
                           SSID |-> link,
                           House_Battery |-> readings[1],
                           Engine_Battery |-> readings[3],
                           Engine_Solar |-> readings[4],
                           House_Solar |-> readings[2],
                           Local_Version |-> local_version,
                           Power_Used |-> Round3(total) ] >>
    /\ result' \in Responses
    /\ h' = [h EXCEPT !.uploaded = TRUE, !.result = result',
                      !.read_fault = FALSE]
    /\ pc' = "uploaded"
    /\ UNCHANGED <<flash, cycle, SLEEP_MS, sensors, meter, now, radio,
                   fail_count, local_version, vars_from_sheet, readings,
                   slept_ms, env_joinable>>

\* ------------------------------------------------------------------------
\* End of the cycle
\* ------------------------------------------------------------------------
\* machine.deepsleep and machine.reset lose the RAM: at the next start every
\* variable of the program has the value the import gives it
RamLost ==
    /\ SLEEP_MS' = DEFAULT_SLEEP_MS
    /\ cumulative_mah' = 0
    /\ ina260_house' = FALSE /\ ina260_engine' = FALSE /\ ina219_pico' = FALSE
    /\ sample_power' = FALSE /\ closure_mah' = 0 /\ last_sample_time' = 0
    /\ cycle_mah' = 0
    /\ now' = 0
    /\ wlan' = None /\ attempts' = 0 /\ available_networks' = {}
    /\ net_idx' = 1 /\ joined' = <<>>
    /\ fail_count' = 0 /\ local_version' = <<>> /\ vars_from_sheet' = NoConfig
    /\ data' = <<>> /\ result' = "" /\ readings' = <<0, 0, 0, 0>>

\* Variant: the connection is left as it is
disconnect_wifi_skipped(w, l, active) == <<l, active>>

\* lines 320-326: <<link, radio power>> after disconnect_wifi(w)
disconnect_wifi(w, l, active) ==
    IF w # None /\ active THEN <<None, FALSE>> ELSE <<l, active>>

\* lines 515-521 after an upload, then lines 523-530 with disconnect_wifi
\* and the deep sleep
EndCycle ==
    /\ pc \in {"uploaded", "sleep"}
    /\ IF pc = "uploaded" /\ upload_ok(result)
       THEN \E wf \in WriteOutcomes, wm \in WriteOutcomes :
               /\ fail_file' = set_fail_count(fail_file, 0, wf)
               /\ mah_file' = set_cumulative_mah(mah_file, cumulative_mah, wm)
               /\ synced' = os_sync(wm, <<fail_file', mah_file', version_file,
                                       main_py>>, synced)
               /\ h' = [h EXCEPT !.w_fail = wf, !.w_mah = wm]
       ELSE /\ h' = h
            /\ UNCHANGED <<fail_file, mah_file, synced>>
    /\ LET off == disconnect_wifi(wlan, link, radio_active)
       IN  link' = off[1] /\ radio_active' = off[2]
    /\ slept_ms' = SLEEP_MS
    /\ pc' = "asleep"
    /\ RamLost
    /\ UNCHANGED <<version_file, main_py, cycle, env_joinable>>

\* The power-down of a deep sleep or a reset loses what was written to a
\* file and not synced: the next start finds each file either as written or
\* as last synced
PowerDown ==
    /\ fail_file' \in {fail_file, synced[1]}
    /\ mah_file' \in {mah_file, synced[2]}
    /\ version_file' \in {version_file, synced[3]}
    /\ main_py' \in {main_py, synced[4]}
    /\ synced' = <<fail_file', mah_file', version_file', main_py'>>

\* The deep sleep ends: the device powers up as after a reset
Wake ==
    /\ pc = "asleep"
    /\ cycle < MaxCycles
    /\ cycle' = cycle + 1
    /\ link' = None /\ radio_active' = FALSE
    /\ pc' = "boot"
    /\ PowerDown
    /\ UNCHANGED <<SLEEP_MS, cumulative_mah, sensors, meter, now,
                   wlan, attempts, available_networks, net_idx, joined,
                   locals, slept_ms, env_joinable, h>>

\* machine.reset() of line 274: a hard reset, the radio starts powered down
Restart ==
    /\ pc = "restarting"
    /\ cycle < MaxCycles
    /\ cycle' = cycle + 1
    /\ link' = None /\ radio_active' = FALSE
    /\ pc' = "boot"
    /\ PowerDown
    /\ UNCHANGED <<SLEEP_MS, cumulative_mah, sensors, meter, now,
                   wlan, attempts, available_networks, net_idx, joined,
                   locals, slept_ms, env_joinable, h>>

Next ==
    \/ Boot
    \/ BootFails
    \/ InitSensors
    \/ StartMeasure
    \/ SamplePower
    \/ WifiStart
    \/ TryNet
    \/ WifiExhausted
    \/ WifiReturn
    \/ PostWifi
    \/ FetchVars
    \/ ApplyConfig
    \/ ReadSensors
    \/ Upload
    \/ EndCycle
    \/ Wake
    \/ Restart

Spec == Init /\ [][Next]_vars

\* ------------------------------------------------------------------------
\* Type invariant
\* ------------------------------------------------------------------------
Pcs == {"boot", "bricked", "init_sensors", "measure", "crashed", "sample1",
        "wifi", "wifi_for", "wifi_return", "sample2", "post_wifi", "sleep",
        "fetch", "sample3", "config", "restarting", "read_sensors",
        "sample4", "sample5", "upload", "uploaded", "asleep"}

TypeOK ==
    /\ pc \in Pcs
    /\ cycle \in 1..MaxCycles
    /\ attempts \in 0..max_attempts
    /\ link \in {None} \cup KnownSet
    /\ radio_active \in BOOLEAN

\* ========================================================================
\* Properties
\* ========================================================================
\* The cycle has ended: deep sleep, update restart or uncaught exception
CycleOver == pc \in {"asleep", "restarting", "crashed"}

\* main() is running or has ended in this cycle (h is of this cycle)
InCycle == pc \notin {"boot", "bricked"}

\* The fail count that get_fail_count finds at the start of the cycle
FailAtStart == get_fail_count(h.fail_at_start)

\* The cumulative energy that get_cumulative_mah finds at the start
MahAtStart == get_cumulative_mah(h.mah_at_start)

\* What a write to a record left on flash: new when it worked, before when
\* open() failed, the empty file when the write failed after open()
Written(file, before, new, outcome) ==
    CASE outcome = "ok" -> file = new
      [] outcome = "open_failed" -> file = before
      [] outcome = "write_failed" -> file = Empty
      [] OTHER -> FALSE

\* ------------------------------------------------------------------------
\* C1: every duty cycle that is not ended by an update restart enters deep
\* sleep whatever fails on the way; in particular no failure path ends
\* main() in an uncaught exception before machine.deepsleep is called.
\* Violated: when the sensor initialisation fails, main() dies at line 411.
C1_NoUncaughtError == pc # "crashed"

C3_NoNetworkCycle ==
    (CycleOver /\ env_joinable = {}
       /\ h.connect_result \notin {"connected", "already"}) =>
        /\ pc = "asleep"
        /\ ~h.fetched /\ ~h.update_checked
        /\ ~h.sensors_read /\ ~h.uploaded
        /\ mah_file = h.mah_at_start
        /\ version_file = h.version_at_start
        /\ fail_file = IntText(FailAtStart + 1)
        /\ slept_ms = h.sleep_at_start

\* ------------------------------------------------------------------------
\* C4: the Power_Used of the record, and the cumulative energy written after
\* an "OK", are the energy loaded at the start plus the energy of the cycle,
\* the sum over the samples of current times the time since the previous
\* sample (h.energy).
\* Violated: main adds the 0.0 that measure_power_during_cycle returned.
C4_PowerUsedIsLoadedPlusCycle ==
    /\ pc = "uploaded" =>
          data[1].Power_Used = Round3(MahAtStart + h.energy)
    /\ (pc = "asleep" /\ h.result = "OK" /\ h.w_mah = "ok") =>
          mah_file = FloatText(MahAtStart + h.energy)

\* ------------------------------------------------------------------------
\* C5: the cumulative-energy record is written only in a cycle whose upload
\* was answered "OK": without connection, with an upload error or any other
\* answer (and until the answer is there) it is what it was at the start.
C5_EnergyWrittenOnlyOnOK ==
    (InCycle /\ ~(pc = "asleep" /\ h.result = "OK")) =>
        /\ mah_file = h.mah_at_start
        /\ h.w_mah = "none"

C5_Witness ==
    /\ pc = "asleep"
    /\ h.uploaded
    /\ h.result = "Error: -2"
    /\ h.energy > 0
    /\ mah_file = h.mah_at_start

\* ------------------------------------------------------------------------
\* C6: check_for_update attempts the download iff parse(published) >
\* parse(installed), parse taking the text before the first dot as major and
\* the text between the first and the second dot as minor (0 without a
\* dot), (0,0) when one of them is not a number, the order lexicographic;
\* without a download nothing is written and there is no restart.
FirstDot(v, from) ==
    IF \E i \in from..Len(v) : v[i] = "."
    THEN CHOOSE i \in from..Len(v) :
            v[i] = "." /\ \A j \in from..(i - 1) : v[j] # "."
    ELSE Len(v) + 1

IsNumber(t) == t # <<>> /\ \A i \in DOMAIN t : t[i] \in Digits

RECURSIVE NumberFrom(_, _)
NumberFrom(t, i) ==
    IF i > Len(t) THEN 0
    ELSE DigitVal(t[i]) * 10 ^ (Len(t) - i) + NumberFrom(t, i + 1)

ParsedVersion(v) ==
    LET d1 == FirstDot(v, 1)
        d2 == FirstDot(v, d1 + 1)
        major == [i \in 1..(d1 - 1) |-> v[i]]
        minor == [i \in 1..(d2 - d1 - 1) |-> v[d1 + i]]
    IN  IF ~IsNumber(major) THEN <<0, 0>>
        ELSE IF d1 > Len(v) THEN <<NumberFrom(major, 1), 0>>
        ELSE IF IsNumber(minor)
             THEN <<NumberFrom(major, 1), NumberFrom(minor, 1)>>
             ELSE <<0, 0>>

Newer(a, b) == ~(a[1] < b[1] \/ (a[1] = b[1] /\ a[2] <= b[2]))

PublishedIsNewer ==
    Newer(ParsedVersion(sheet_version_of(vars_from_sheet)),
          ParsedVersion(get_local_version(version_file)))

C6_DownloadIffNewer ==
    [][ (pc = "config" /\ truthy(vars_from_sheet)) =>
          /\ (h'.download # "none") <=> PublishedIsNewer
          /\ ~PublishedIsNewer =>
                /\ main_py' = main_py
                /\ version_file' = version_file
                /\ pc' = "read_sensors" ]_vars

C6_Witness ==
    /\ pc = "read_sensors"
    /\ h.update_checked
    /\ h.download = "failed"
    /\ h.version_at_start = InServiceVersion

C8_FailedDownloadChangesNothing ==
    (InCycle
       /\ h.download = "failed") =>
        /\ main_py = h.main_at_start
        /\ version_file = h.version_at_start
        /\ pc \notin {"restarting", "crashed"}
        /\ pc = "asleep" => (h.sensors_read /\ h.uploaded)

\* ------------------------------------------------------------------------
\* C9: connect_wifi asks the known networks in list order, passing those
\* the scan does not show; no network is polled more than max_attempts
\* times; it returns connected to the first asked network that gets ready
\* and asks no later one, attempts being at most max_attempts; with exactly
\* one known network shown and joinable the connection is to that one.
RECURSIVE ShownFrom(_)
ShownFrom(i) ==
    IF i > Len(KNOWN_NETWORKS) THEN <<>>
    ELSE (IF KNOWN_NETWORKS[i] \in available_networks
          THEN <<KNOWN_NETWORKS[i]>> ELSE <<>>) \o ShownFrom(i + 1)

\* the known networks of the scan, in list order
Shown == ShownFrom(1)

IsPrefix(a, b) == Len(a) <= Len(b) /\ \A i \in 1..Len(a) : a[i] = b[i]

C9_ConnectInPriorityOrder ==
    /\ attempts <= max_attempts
    /\ pc \in {"wifi_for", "wifi_return"} => IsPrefix(joined, Shown)
    /\ (pc = "wifi_return" /\ h.connect_result # "already") =>
          LET ready == {i \in 1..Len(Shown) : Shown[i] \in env_joinable}
          IN  IF ready = {}
              THEN joined = Shown /\ wlan = None /\ link = None
              ELSE LET first == CHOOSE i \in ready : \A j \in ready : i <= j
                   IN  /\ joined = SubSeq(Shown, 1, first)
                       /\ wlan # None
                       /\ link = Shown[first]
    /\ (pc = "wifi_return" /\ h.connect_result # "already"
          /\ Cardinality(available_networks) = 1
          /\ available_networks \subseteq env_joinable) =>
             {link} = available_networks

C9_Witness ==
    /\ pc = "wifi_return"
    /\ available_networks = {"Levy-Guest", "Seattle Boat", "Joe's iPhone"}
    /\ env_joinable = {"Seattle Boat", "Joe's iPhone"}
    /\ joined = <<"Levy-Guest", "Seattle Boat">>
    /\ link = "Seattle Boat"
    /\ attempts = max_attempts

\* ------------------------------------------------------------------------
\* C10: when the scan shows none of the known networks, connect_wifi asks
\* for no join and returns no connection with attempts 0 and the radio off.
C10_NothingShown ==
    (pc = "wifi_return" /\ h.connect_result # "already"
       /\ available_networks \cap KnownSet = {}) =>
        /\ joined = <<>>
        /\ wlan = None
        /\ link = None
        /\ attempts = 0
        /\ ~radio_active

C10_Witness ==
    /\ pc = "wifi_return"
    /\ h.connect_result = "none"
    /\ available_networks = {}
    /\ wlan = None
    /\ ~radio_active

\* ------------------------------------------------------------------------
\* C11: when a known network is shown but every asked one uses up its
\* polls, connect_wifi returns no connection with the radio off and reports
\* as attempts the polls of the last asked network, max_attempts, not 0.
\* Violated: line 317 returns the constant 0.
C11_ExhaustedReportsPolls ==
    (pc = "wifi_return" /\ h.connect_result = "none" /\ joined # <<>>) =>
        /\ wlan = None
        /\ link = None
        /\ ~radio_active
        /\ attempts = max_attempts

\* ------------------------------------------------------------------------
\* C12: when the device enters deep sleep the radio is off and no
\* connection is held, whatever the outcome of the cycle: a connection made
\* in the cycle is released and the radio switched off before the sleep.
C12_RadioOffInDeepSleep ==
    pc = "asleep" => (~radio_active /\ link = None)

C12_Witness ==
    /\ pc = "asleep"
    /\ h.connect_result = "connected"
    /\ h.uploaded
    /\ h.result = "<html>"
    /\ ~radio_active
    /\ link = None

\* ------------------------------------------------------------------------
\* C13: every value written to a record in a cycle (fail count, energy,
\* version) has been flushed and synced when the device powers down or
\* restarts, so that the next start loads the value last written.
\* Violated: set_fail_count has neither flush() nor os.sync(); after a cycle
\* without connection the new fail count is written and not synced.
C13_WritesAreSynced ==
    pc \in {"asleep", "restarting"} =>
        /\ h.w_fail = "ok" => synced[1] = fail_file
        /\ h.w_mah = "ok" => synced[2] = mah_file
        /\ h.w_ver = "ok" => synced[3] = version_file

\* ------------------------------------------------------------------------
\* C14: the three records are independent.  A write of one record that
\* works is followed by a load that returns the written value, and leaves
\* the other records as they were; a record that is missing, empty or not
\* readable loads as its default (fail count 0, energy 0, version (0,0)),
\* whatever the other records hold.
Unreadable == {Missing, Empty, Garbage}

C14_Loads ==
    /\ fail_file' \in Unreadable => get_fail_count(fail_file') = 0
    /\ mah_file' \in Unreadable => get_cumulative_mah(mah_file') = 0
    /\ version_file' \in Unreadable =>
          version_tuple(get_local_version(version_file')) = <<0, 0>>

C14_RecordsIndependent ==
    [][ /\ C14_Loads
        /\ pc = "post_wifi" =>
              /\ mah_file' = mah_file /\ version_file' = version_file
              /\ h'.w_fail = "ok" => get_fail_count(fail_file') = fail_count'
        /\ pc = "config" =>
              /\ fail_file' = fail_file /\ mah_file' = mah_file
              /\ h'.w_ver = "ok" =>
                    version_tuple(get_local_version(version_file')) =
                    version_tuple(sheet_version_of(vars_from_sheet))
        /\ pc = "uploaded" =>
              /\ version_file' = version_file
              /\ h'.w_fail = "ok" => get_fail_count(fail_file') = 0
              /\ h'.w_fail = "open_failed" => fail_file' = fail_file
              /\ h'.w_mah = "ok" =>
                    get_cumulative_mah(mah_file') = cumulative_mah
              /\ h'.w_mah \in {"none", "open_failed"} => mah_file' = mah_file
      ]_vars

C14_Witness ==
    /\ pc = "asleep"
    /\ h.result = "OK"
    /\ h.w_fail = "open_failed" /\ fail_file = Garbage
    /\ get_fail_count(fail_file) = 0
    /\ h.w_mah = "ok" /\ get_cumulative_mah(mah_file) = 5000
    /\ version_tuple(get_local_version(version_file)) = <<1, 3>>

\* ------------------------------------------------------------------------
\* C15: a connected cycle whose config fetch gave an object and that is not
\* ended by an update restart sleeps for Sleep-seconds * 1000 ms when the
\* object carries an integer Sleep-seconds, and for the sleep interval as it
\* was before the config step when the key is absent or no integer.
C15_SleepFromConfig ==
    (pc = "asleep" /\ h.fetched /\ ~h.fetch_none) =>
        slept_ms = IF h.update_checked /\ h.sleep_cfg \notin {Absent, NotInt}
                   THEN h.sleep_cfg[2] * 1000
                   ELSE h.sleep_at_start

C15_Witness ==
    /\ pc = "asleep"
    /\ h.update_checked
    /\ h.sleep_cfg = IntVal(600)
    /\ h.sleep_at_start = 300000
    /\ slept_ms = 600000

\* ------------------------------------------------------------------------
\* C16: when the config fetch fails in a connected cycle, there is no
\* update check, the sensors are read and the record is uploaded, and the
\* device sleeps for the interval persisted before: the one an earlier
\* cycle got from the config and slept with.
\* Violated: SLEEP_MS is a module global, 300000 again after every start;
\* no sleep interval is kept on flash.
C16_FetchFailureKeepsInterval ==
    (pc = "asleep" /\ h.fetch_none /\ h.slept_before # 0) =>
        /\ ~h.update_checked
        /\ h.sensors_read /\ h.uploaded
        /\ slept_ms = h.slept_before

\* ------------------------------------------------------------------------
\* C17: when the sensor initialisation fails the cycle goes on with the
\* sensors unavailable: the connect is still tried and, when connected, the
\* record is uploaded with 0 for the battery voltages and solar currents
\* and with no energy added by the power sensor.
\* Violated: main() ends at line 411 before the connect (the error of C1).
SensorsFailed ==
    pc \notin {"boot", "bricked", "init_sensors", "asleep"} /\ ~ina219_pico

C17_SensorFailureDegrades ==
    SensorsFailed =>
        /\ pc # "crashed"
        /\ pc \in {"uploaded", "sleep"} => h.connect_result # "pending"
        /\ pc = "uploaded" =>
              /\ readings = <<0, 0, 0, 0>>
              /\ data[1].Power_Used = Round3(MahAtStart)

\* ------------------------------------------------------------------------
\* C18: in a cycle the running total of the accumulator starts at 0 and
\* never decreases from one call of sample_power() to the next; a sample
\* whose current read raises leaves the total as it is and still moves the
\* time of the last sample forward.
SamplePcs == {"sample1", "sample2", "sample3", "sample4", "sample5"}

C18_TotalNeverDecreases ==
    [][ /\ (pc = "measure" /\ pc' = "sample1") => closure_mah' = 0
        /\ pc \in SamplePcs =>
              /\ closure_mah' >= closure_mah
              /\ last_sample_time' = now'
              /\ last_sample_time' > last_sample_time
              /\ h'.read_fault => closure_mah' = closure_mah
      ]_vars

C18_Witness ==
    /\ pc = "post_wifi"
    /\ h.samples = 2
    /\ h.read_fault
    /\ closure_mah = 100 * Hour
    /\ last_sample_time = 2 * Hour

\* ------------------------------------------------------------------------
\* C19: after an update restart whose version write worked, a cycle that
\* finds the same version published does not download and does not restart:
\* the installed version it loads is not smaller than the published one,
\* main.py and the version record stay as they are, and the cycle goes on
\* to the upload and the deep sleep.
C19_NoRestartLoop ==
    (InCycle /\ h.same_as_update) =>
        /\ h.download = "none"
        /\ pc \notin {"restarting", "crashed"}
        /\ version_file = h.version_at_start
        /\ main_py = h.main_at_start
        /\ ~Newer(ParsedVersion(h.last_update),
                  ParsedVersion(get_local_version(version_file)))
        /\ pc = "asleep" => h.uploaded

C19_Witness ==
    /\ pc = "asleep"
    /\ cycle = 2
    /\ h.last_update = <<"1", ".", "4">>
    /\ h.same_as_update
    /\ h.uploaded
    /\ version_file = Text(<<"1", ".", "4">>)
    /\ main_py = <<"import", "published">>

\* ------------------------------------------------------------------------
\* C20: from an empty store and with every write working, the fail count
\* on flash at each power-down is the number of cycles without connection
\* since the latest cycle whose upload was answered "OK", and the
\* Rounds_to_Connect of an uploaded record is that number as it was at the
\* start of the cycle.
\* Violated: the fail count written without sync by a cycle without
\* connection can be lost in the power-down (C13).
C20_FailCountCountsNoConnection ==
    (InCycle /\ h.clean /\ WritesWorked(h)) =>
        /\ pc \in {"asleep", "restarting"} =>
              get_fail_count(fail_file) = SinceOkAfter(h)
        /\ pc = "uploaded" => data[1].Rounds_to_Connect = h.since_ok

====
